---- MODULE Spec2Model ----
(***************************************************************************)
(* Model of the video resolver (services/video_resolver.py) and of the     *)
(* part of the catalog store it reads (memory/postgres_store.py).          *)
(*                                                                         *)
(* Text is a sequence of Unicode code points (integers).  Scores are kept  *)
(* in tenths of a point (the code rounds every score to one decimal), so   *)
(* the score 85.0 is the integer 850 and 66.7 is 667.                      *)
(***************************************************************************)
EXTENDS Integers, Sequences, FiniteSets, TLC

VARIABLES videos, backend, op, args, ret, store_calls, frames

vars == <<videos, backend, op, args, ret, store_calls, frames>>

(***************************************************************************)
(* Generic helpers                                                         *)
(***************************************************************************)
Max2(x, y) == IF x >= y THEN x ELSE y

Min2(x, y) == IF x <= y THEN x ELSE y

RECURSIVE Flatten(_)
Flatten(ss) == IF ss = <<>> THEN <<>> ELSE Head(ss) \o Flatten(Tail(ss))

\* list slicing xs[:n] for n >= 0
Take(xs, n) == SubSeq(xs, 1, Min2(n, Len(xs)))

\* list slicing xs[lo:hi] with 0-based bounds, 0 <= lo
Slice(xs, lo, hi) == SubSeq(xs, lo + 1, Min2(hi, Len(xs)))

\* lexicographic order on code point sequences (Python str comparison)
RECURSIVE StrLess(_, _)
StrLess(a, b) ==
    IF b = <<>> THEN FALSE
    ELSE IF a = <<>> THEN TRUE
    ELSE IF Head(a) /= Head(b) THEN Head(a) < Head(b)
    ELSE StrLess(Tail(a), Tail(b))

(***************************************************************************)
(* Unicode tables, restricted to the code points the model uses            *)
(***************************************************************************)
\* str.lower() of one code point
LowerOf(c) ==
    IF c \in 65..90 THEN <<c + 32>>
    ELSE IF c = 201 THEN <<233>>
    ELSE <<c>>

\* unicodedata.normalize("NFKD", .) of one code point
NfkdOf(c) ==
    CASE c = 233   -> <<101, 769>>
      [] c = 201   -> <<69, 769>>
      [] c = 64257 -> <<102, 105>>
      [] c = 8450  -> <<67>>
      [] c = 65283 -> <<35>>
      [] c = 160   -> <<32>>
      [] OTHER     -> <<c>>

\* membership in the character class of _EMOJI_PATTERN
IsEmoji(c) ==
    \/ c \in 128512..128591
    \/ c \in 127744..128511
    \/ c \in 128640..128767
    \/ c \in 127456..127487
    \/ c \in 9986..10160
    \/ c \in 65024..65039
    \/ c \in 129280..129535
    \/ c \in 129536..129647
    \/ c \in 129648..129791
    \/ c \in 9728..9983
    \/ c = 8205

\* regex \w with re.UNICODE
IsWord(c) ==
    \/ c \in 48..57
    \/ c \in 65..90
    \/ c \in 97..122
    \/ c = 95
    \/ c \in {201, 233, 64257, 8450}

\* regex \s
IsSpace(c) == c \in {9, 10, 11, 12, 13, 32, 160}

(***************************************************************************)
(* _normalize                                                              *)
(***************************************************************************)
RECURSIVE MapChars(_, _)
MapChars(F(_), text) ==
    IF text = <<>> THEN <<>> ELSE F(Head(text)) \o MapChars(F, Tail(text))

\* _EMOJI_PATTERN.sub("", text)
RemoveEmoji(text) == SelectSeq(text, LAMBDA c : ~IsEmoji(c))

\* number of leading \w characters of text
RECURSIVE WordRun(_)
WordRun(text) ==
    IF text = <<>> \/ ~IsWord(Head(text)) THEN 0 ELSE 1 + WordRun(Tail(text))

\* _HASHTAG_PATTERN.sub("", text): drop every '#' and the run of word
\* characters that follows it, when that run is not empty
RECURSIVE RemoveHashtags(_)
RemoveHashtags(text) ==
    IF text = <<>> THEN <<>>
    ELSE IF Head(text) = 35 /\ WordRun(Tail(text)) > 0
         THEN RemoveHashtags(SubSeq(text, 2 + WordRun(Tail(text)), Len(text)))
         ELSE <<Head(text)>> \o RemoveHashtags(Tail(text))

\* the punctuation step left out
PunctToSpace_Skipped(c) == <<c>>

\* re.sub(r"[^\w\s]", " ", text)
PunctToSpace(c) == IF IsWord(c) \/ IsSpace(c) THEN <<c>> ELSE <<32>>

\* re.sub(r"\s+", " ", text)
RECURSIVE CollapseSpace(_)
CollapseSpace(text) ==
    IF text = <<>> THEN <<>>
    ELSE IF IsSpace(Head(text))
         THEN IF Len(text) > 1 /\ IsSpace(text[2])
              THEN CollapseSpace(Tail(text))
              ELSE <<32>> \o CollapseSpace(Tail(text))
         ELSE <<Head(text)>> \o CollapseSpace(Tail(text))

\* str.strip()
RECURSIVE Strip(_)
Strip(text) ==
    IF text = <<>> THEN <<>>
    ELSE IF IsSpace(Head(text)) THEN Strip(Tail(text))
    ELSE IF IsSpace(text[Len(text)]) THEN Strip(SubSeq(text, 1, Len(text) - 1))
    ELSE text

_normalize(text) ==
    LET lowered  == MapChars(LowerOf, text)
        nfkd     == MapChars(NfkdOf, lowered)
        noemoji  == RemoveEmoji(nfkd)
        nohash   == RemoveHashtags(noemoji)
        nopunct  == MapChars(PunctToSpace, nohash)
    IN  Strip(CollapseSpace(nopunct))

(***************************************************************************)
(* Tokens                                                                  *)
(***************************************************************************)
\* str.split(): the maximal runs of non-whitespace characters
RECURSIVE SplitAcc(_, _, _)
SplitAcc(text, cur, acc) ==
    IF text = <<>> THEN (IF cur = <<>> THEN acc ELSE Append(acc, cur))
    ELSE IF IsSpace(Head(text))
         THEN SplitAcc(Tail(text), <<>>, IF cur = <<>> THEN acc ELSE Append(acc, cur))
         ELSE SplitAcc(Tail(text), Append(cur, Head(text)), acc)

Split(text) == SplitAcc(text, <<>>, <<>>)

\* " ".join(tokens)
RECURSIVE Join(_)
Join(tokens) ==
    IF tokens = <<>> THEN <<>>
    ELSE IF Len(tokens) = 1 THEN Head(tokens)
    ELSE Head(tokens) \o <<32>> \o Join(Tail(tokens))

\* insert a token into a sorted list, after the tokens equal to it
RECURSIVE InsertSorted(_, _)
InsertSorted(tok, sorted) ==
    IF sorted = <<>> THEN <<tok>>
    ELSE IF StrLess(tok, Head(sorted)) THEN <<tok>> \o sorted
    ELSE <<Head(sorted)>> \o InsertSorted(tok, Tail(sorted))

\* sorted(tokens) for a list of strings
RECURSIVE SortedList(_)
SortedList(tokens) ==
    IF tokens = <<>> THEN <<>>
    ELSE InsertSorted(Head(tokens), SortedList(Tail(tokens)))

\* sorted(s) for a set of strings
RECURSIVE SortedSet(_)
SortedSet(s) ==
    IF s = {} THEN <<>>
    ELSE LET least == CHOOSE x \in s : \A y \in s : y = x \/ StrLess(x, y)
         IN  <<least>> \o SortedSet(s \ {least})

\* set(text.split())
TokenSet(text) == {Split(text)[i] : i \in 1..Len(Split(text))}

(***************************************************************************)
(* Scores before rounding are doubles.  A double is held as the fraction   *)
(* num/den the arithmetic aims at and the error its roundings have left:   *)
(* its value is num/den + err/(den * 2^exp).                               *)
(***************************************************************************)
\* the double that is n/d exactly (0.0, 100.0)
Frac(n, d) == [num |-> n, den |-> d, err |-> 0, exp |-> 0]

RECURSIVE Pow2(_)
Pow2(k) == IF k = 0 THEN 1 ELSE 2 * Pow2(k - 1)

\* (x * 2^k) % m
RECURSIVE ShiftMod(_, _, _)
ShiftMod(x, k, m) == IF k = 0 \/ x = 0 THEN x % m ELSE ShiftMod((2 * x) % m, k - 1, m)

\* the k with 2^k <= n/d < 2^(k+1), for n > 0
RECURSIVE Log2Floor(_, _)
Log2Floor(n, d) ==
    IF n < d THEN Log2Floor(2 * n, d) - 1
    ELSE IF n >= 2 * d THEN Log2Floor(n, 2 * d) + 1
    ELSE 0

\* -1, 0 or 1
Sign(c) == IF c < 0 THEN -1 ELSE IF c > 0 THEN 1 ELSE 0

\* the binary exponent of the positive value n/d + c/(d * 2^e), k being
\* that of n/d: one less when n/d is a power of two and c pulls below it
ExponentNear(n, d, c, k) ==
    IF c < 0 /\ (IF k >= 0 THEN n = d * Pow2(k) ELSE n * Pow2(-k) = d)
    THEN k - 1 ELSE k

Exponent(n, d, c) == ExponentNear(n, d, c, Log2Floor(n, d))

\* the value n/d + c/(d * 2^e) taken to the nearest whole number of units
\* D / (d * 2^e), halves to the even one; N2 is its numerator over d * 2^e
\* modulo 2D, which holds the remainder and the parity of the quotient
RoundBy(n, d, c, e, D, N2) ==
    [num |-> n, den |-> d, exp |-> e,
     err |-> c - (N2 % D)
             + (IF 2 * (N2 % D) > D \/ (2 * (N2 % D) = D /\ N2 >= D) THEN D ELSE 0)]

\* the value taken to the nearest multiple of 2^-g; a value that has no
\* bit below that place (e < g) is one already
RoundAt(n, d, c, e, g) ==
    IF e < g THEN [num |-> n, den |-> d, exp |-> e, err |-> c]
    ELSE RoundBy(n, d, c, e, d * Pow2(e - g),
                 (Pow2(e - g + 1) * ShiftMod(n % d, g - 1, d) + c)
                     % (2 * d * Pow2(e - g)))

\* the double nearest to the positive value n/d + c/(d * 2^e): 2^-g is the
\* place of the last of its 53 bits
RoundDouble(n, d, c, e) == RoundAt(n, d, c, e, 52 - Exponent(n, d, c))

\* n / d for integers n >= 0 and d > 0 (here and below the operands are
\* bound as values, so that each is computed once)
DivDouble(n, d) ==
    CHOOSE r \in {IF v[1] = 0 THEN Frac(0, v[2])
                  ELSE RoundDouble(v[1], v[2], 0, 52 - Exponent(v[1], v[2], 0)) :
                     v \in {<<n, d>>}} : TRUE

\* x * 100
Times100(x) ==
    CHOOSE r \in {IF v.num = 0 THEN v
                  ELSE RoundDouble(100 * v.num, v.den, 100 * v.err, v.exp) :
                     v \in {x}} : TRUE

\* 1.0 - x, for x <= 1
OneMinus(x) ==
    CHOOSE r \in {IF v.num = v.den THEN Frac(0, v.den)
                  ELSE RoundDouble(v.den - v.num, v.den, -v.err, v.exp) :
                     v \in {x}} : TRUE

\* 100 - x, for x <= 100
HundredMinus(x) ==
    CHOOSE r \in {IF v.num = 100 * v.den THEN Frac(0, v.den)
                  ELSE RoundDouble(100 * v.den - v.num, v.den, -v.err, v.exp) :
                     v \in {x}} : TRUE

\* the sign of x - y for two doubles on the same fraction
ErrCompare(x, y) ==
    IF x.err = 0 \/ y.err = 0 \/ Sign(x.err) /= Sign(y.err)
    THEN Sign(Sign(x.err) - Sign(y.err))
    ELSE LET m == IF x.exp < y.exp THEN x.exp ELSE y.exp
         IN  Sign(x.err * y.den * Pow2(y.exp - m) - y.err * x.den * Pow2(x.exp - m))

\* x >= y
FracGeq(x, y) ==
    \/ x.num * y.den > y.num * x.den
    \/ x.num * y.den = y.num * x.den /\ ErrCompare(x, y) >= 0

\* Python max(x, y): the first argument unless the second is greater
FracMax(x, y) ==
    CHOOSE r \in {IF FracGeq(v[1], v[2]) THEN v[1] ELSE v[2] : v \in {<<x, y>>}} : TRUE

\* the score cut to one decimal instead of rounded
RoundTenths_Down(x) == (10 * x.num) \div x.den

\* round(score, 1), as a number of tenths: the tenth nearest to the double.
\* When the fraction lies halfway between two tenths the error of the double
\* decides, and a double that is the half exactly goes to the even tenth.
RoundTenths(x) ==
    LET Tenths(v) ==
            LET n == 10 * v.num
                q == n \div v.den
                r == n % v.den
            IN  IF 2 * r < v.den THEN q
                ELSE IF 2 * r > v.den THEN q + 1
                ELSE IF v.err < 0 THEN q
                ELSE IF v.err > 0 THEN q + 1
                ELSE IF q % 2 = 0 THEN q ELSE q + 1
    IN  CHOOSE t \in {Tenths(v) : v \in {x}} : TRUE

(***************************************************************************)
(* Longest common subsequence (rapidfuzz Indel distance)                   *)
(***************************************************************************)
\* largest element of a non-empty finite set of integers
SetMax(S) == CHOOSE x \in S : \A y \in S : y <= x

\* one row of the dynamic program: prev[j + 1] is the LCS length of a prefix
\* of a and the first j characters of b; the result is the row of that
\* prefix extended by the character ch (built as a tuple, so that a row is
\* computed once)
LcsRow(ch, b, prev) ==
    [j \in 1..(Len(b) + 1) |->
        SetMax({prev[j]} \cup {prev[k] + 1 : k \in {k \in 1..(j - 1) : b[k] = ch}})]
    \o <<>>

RECURSIVE LcsRows(_, _, _, _)
LcsRows(a, b, i, prev) ==
    IF i > Len(a) THEN prev[Len(b) + 1]
    ELSE LET row == LcsRow(a[i], b, prev)
         IN  \* the test computes the row before the next step starts
             IF Len(row) = 0 THEN 0 ELSE LcsRows(a, b, i + 1, row)

LcsLen(a, b) == LcsRows(a, b, 1, [j \in 1..(Len(b) + 1) |-> 0] \o <<>>)

\* rapidfuzz.distance.Indel.distance
IndelDistance(a, b) == Len(a) + Len(b) - 2 * LcsLen(a, b)

\* rapidfuzz _norm_distance: 100 - 100 * dist / lensum
NormDistance(dist, lensum) ==
    IF lensum = 0 THEN Frac(100, 1) ELSE HundredMinus(DivDouble(100 * dist, lensum))

\* rapidfuzz.distance.Indel.normalized_similarity: 1.0 - dist / maximum
NormalizedSimilarity(dist, maximum) ==
    IF maximum = 0 THEN Frac(1, 1) ELSE OneMinus(DivDouble(dist, maximum))

(***************************************************************************)
(* rapidfuzz.fuzz strategies                                               *)
(***************************************************************************)
\* fuzz.ratio: normalized_similarity * 100
FuzzRatio(a, b) ==
    Times100(NormalizedSimilarity(IndelDistance(a, b), Len(a) + Len(b)))

\* fuzz.token_sort_ratio
FuzzTokenSortRatio(a, b) ==
    FuzzRatio(Join(SortedList(Split(a))), Join(SortedList(Split(b))))

\* fuzz.token_set_ratio
FuzzTokenSetRatio(a, b) ==
    LET tokens_a == TokenSet(a)
        tokens_b == TokenSet(b)
        intersect == tokens_a \cap tokens_b
        diff_ab == tokens_a \ tokens_b
        diff_ba == tokens_b \ tokens_a
        diff_ab_joined == Join(SortedSet(diff_ab))
        diff_ba_joined == Join(SortedSet(diff_ba))
        ab_len == Len(diff_ab_joined)
        ba_len == Len(diff_ba_joined)
        sect_len == Len(Join(SortedSet(intersect)))
        sep == IF sect_len /= 0 THEN 1 ELSE 0
        sect_ab_len == sect_len + sep + ab_len
        sect_ba_len == sect_len + sep + ba_len
        result == NormDistance(IndelDistance(diff_ab_joined, diff_ba_joined),
                               sect_ab_len + sect_ba_len)
        sect_ab_ratio == NormDistance(sep + ab_len, sect_len + sect_ab_len)
        sect_ba_ratio == NormDistance(sep + ba_len, sect_len + sect_ba_len)
    IN  IF tokens_a = {} \/ tokens_b = {} THEN Frac(0, 1)
        ELSE IF intersect /= {} /\ (diff_ab = {} \/ diff_ba = {}) THEN Frac(100, 1)
        ELSE IF sect_len = 0 THEN result
        ELSE FracMax(FracMax(result, sect_ab_ratio), sect_ba_ratio)

\* the windows of the longer string that fuzz.partial_ratio scores against
\* the shorter one: prefixes shorter than it, every full-length window, and
\* the suffixes shorter than it; a window is skipped when the character at
\* its growing edge does not occur in the shorter string
PartialWindows(s1, s2) ==
    LET len1 == Len(s1)
        len2 == Len(s2)
        chars == {s1[k] : k \in 1..len1}
    IN  {Slice(s2, 0, i) : i \in {i \in 1..(len1 - 1) : s2[i] \in chars}}
        \cup {Slice(s2, i, i + len1) :
                 i \in {i \in 0..(len2 - len1 - 1) : s2[i + len1] \in chars}}
        \cup {Slice(s2, i, len2) :
                 i \in {i \in (len2 - len1)..(len2 - 1) : s2[i + 1] \in chars}}

\* the greatest of best and the fractions of fs
FracMaxOver(fs, best) ==
    LET all == fs \cup {best}
    IN  CHOOSE x \in all : \A y \in all : FracGeq(x, y)

\* _partial_ratio_impl, for len(s1) <= len(s2)
PartialRatioImpl(s1, s2) ==
    FracMaxOver({FuzzRatio(s1, w) : w \in PartialWindows(s1, s2)}, Frac(0, 1))

\* fuzz.partial_ratio
FuzzPartialRatio(a, b) ==
    LET shorter == IF Len(a) <= Len(b) THEN a ELSE b
        longer  == IF Len(a) <= Len(b) THEN b ELSE a
        res     == PartialRatioImpl(shorter, longer)
    IN  IF a = <<>> /\ b = <<>> THEN Frac(100, 1)
        ELSE IF Len(a) = Len(b) /\ ~FracGeq(res, Frac(100, 1))
             THEN FracMax(res, PartialRatioImpl(longer, shorter))
             ELSE res

(***************************************************************************)
(* difflib.SequenceMatcher (fallback backend)                              *)
(***************************************************************************)
\* length of the common prefix of a[i..ahi] and b[j..bhi] (1-based, inclusive)
RECURSIVE MatchRun(_, _, _, _, _, _)
MatchRun(a, b, i, j, ahi, bhi) ==
    IF i > ahi \/ j > bhi \/ a[i] /= b[j] THEN 0
    ELSE 1 + MatchRun(a, b, i + 1, j + 1, ahi, bhi)

\* the characters of b that autojunk keeps out of the index b2j: when b has
\* 200 characters or more, those found in more than len(b) // 100 + 1 places
Popular(b) ==
    IF Len(b) < 200 THEN {}
    ELSE {c \in {b[j] : j \in 1..Len(b)} :
             Cardinality({j \in 1..Len(b) : b[j] = c}) > (Len(b) \div 100) + 1}

\* length of the block found through b2j that starts at a[i], b[j]: equal
\* characters, none of them popular
RECURSIVE IndexedRun(_, _, _, _, _, _, _)
IndexedRun(a, b, i, j, ahi, bhi, popular) ==
    IF i > ahi \/ j > bhi \/ a[i] /= b[j] \/ b[j] \in popular THEN 0
    ELSE 1 + IndexedRun(a, b, i + 1, j + 1, ahi, bhi, popular)

\* number of equal characters going back from a[i], b[j]
RECURSIVE BackRun(_, _, _, _, _, _)
BackRun(a, b, i, j, alo, blo) ==
    IF i < alo \/ j < blo \/ a[i] /= b[j] THEN 0
    ELSE 1 + BackRun(a, b, i - 1, j - 1, alo, blo)

\* the block <<size, i, j>> that find_longest_match keeps among those found
\* through b2j: the longest, then the earliest in a, then the earliest in b
BestBlock(blocks) ==
    CHOOSE m \in blocks :
        \A o \in blocks :
            \/ m[1] > o[1]
            \/ m[1] = o[1] /\ m[2] < o[2]
            \/ m[1] = o[1] /\ m[2] = o[2] /\ m[3] <= o[3]

\* the block m extended on both ends by equal characters, popular ones
\* included, as <<i, j, size>>
Extended(a, b, alo, ahi, blo, bhi, m, back) ==
    <<m[2] - back, m[3] - back,
      back + m[1] + MatchRun(a, b, m[2] + m[1], m[3] + m[1], ahi, bhi)>>

\* find_longest_match (a[alo], b[blo] with size 0 when no block is found)
LongestMatch(a, b, alo, ahi, blo, bhi) ==
    CHOOSE r \in {Extended(a, b, alo, ahi, blo, bhi, m,
                           BackRun(a, b, m[2] - 1, m[3] - 1, alo, blo)) :
                     m \in {BestBlock({<<IndexedRun(a, b, i, j, ahi, bhi, popular), i, j>> :
                                i \in alo..ahi, j \in blo..bhi,
                                popular \in {Popular(b)}})}} : TRUE

\* total size of get_matching_blocks() within a[alo..ahi], b[blo..bhi]
RECURSIVE MatchingTotal(_, _, _, _, _, _)
MatchingTotal(a, b, alo, ahi, blo, bhi) ==
    IF alo > ahi \/ blo > bhi THEN 0
    ELSE CHOOSE total \in
             {IF m[3] = 0 THEN 0
              ELSE m[3]
                   + MatchingTotal(a, b, alo, m[1] - 1, blo, m[2] - 1)
                   + MatchingTotal(a, b, m[1] + m[3], ahi, m[2] + m[3], bhi) :
                 m \in {LongestMatch(a, b, alo, ahi, blo, bhi)}} : TRUE

\* SequenceMatcher(None, a, b).ratio() * 100
SeqScore(a, b) ==
    IF Len(a) + Len(b) = 0 THEN Frac(100, 1)
    ELSE Times100(DivDouble(2 * MatchingTotal(a, b, 1, Len(a), 1, Len(b)),
                            Len(a) + Len(b)))

(***************************************************************************)
(* _similarity, one definition per backend                                 *)
(***************************************************************************)
\* the rapidfuzz scorer with the character ratio taken into the maximum
SimilarityRapidfuzz_WithRatio(a, b) ==
    LET ratio == FuzzRatio(a, b)
        token_set == FuzzTokenSetRatio(a, b)
        token_sort == FuzzTokenSortRatio(a, b)
        shorter == Min2(Len(a), Len(b))
        partial == IF shorter > 4 THEN FuzzPartialRatio(a, b) ELSE Frac(0, 1)
    IN  FracMax(FracMax(FracMax(token_set, partial), token_sort), ratio)

\* the rapidfuzz scorer with partial_ratio used from a shorter length of 4
SimilarityRapidfuzz_PartialFromFour(a, b) ==
    LET token_set == FuzzTokenSetRatio(a, b)
        token_sort == FuzzTokenSortRatio(a, b)
        shorter == Min2(Len(a), Len(b))
        partial == IF shorter > 3 THEN FuzzPartialRatio(a, b) ELSE Frac(0, 1)
    IN  FracMax(FracMax(token_set, partial), token_sort)

\* with rapidfuzz installed
SimilarityRapidfuzz(a, b) ==
    LET token_set == FuzzTokenSetRatio(a, b)
        token_sort == FuzzTokenSortRatio(a, b)
        shorter == Min2(Len(a), Len(b))
        partial == IF shorter > 4 THEN FuzzPartialRatio(a, b) ELSE Frac(0, 1)
    IN  FracMax(FracMax(token_set, partial), token_sort)

\* the difflib fallback
SimilarityDifflib(a, b) ==
    LET seq_score == SeqScore(a, b)
        tokens_a == TokenSet(a)
        tokens_b == TokenSet(b)
        jaccard == Times100(DivDouble(Cardinality(tokens_a \cap tokens_b),
                                      Cardinality(tokens_a \cup tokens_b)))
    IN  IF tokens_a /= {} /\ tokens_b /= {}
        THEN FracMax(seq_score, jaccard)
        ELSE seq_score

_similarity(be, a, b) ==
    IF be = "rapidfuzz" THEN SimilarityRapidfuzz(a, b) ELSE SimilarityDifflib(a, b)

(***************************************************************************)
(* Thresholds                                                              *)
(***************************************************************************)
MATCH_THRESHOLD == 70

HIGH_CONFIDENCE_THRESHOLD == 85

AMBIGUITY_GAP == 10

\* scores carry one decimal: a score is stored as its number of tenths
ScoreScale == 10

\* limit of the catalog fetch in resolve_video_by_title and get_top_matches
FETCH_LIMIT == 100

(***************************************************************************)
(* Bounds and input pools                                                  *)
(***************************************************************************)
\* most rows the videos table of the channel holds
MaxVideos == 4

\* "Goa Trip 1!", "My Goa Trip #fun" and the fire emoji followed by "!" (a
\* title that normalizes to the empty string)
Titles ==
    { <<71, 111, 97, 32, 84, 114, 105, 112, 32, 49, 33>>,
      <<77, 121, 32, 71, 111, 97, 32, 84, 114, 105, 112, 32, 35, 102, 117, 110>>,
      <<128293, 33>> }

\* "Goa-Trip", "goa trp", "goa day" and a lone fire emoji (a query that
\* normalizes to the empty string)
Queries ==
    { <<71, 111, 97, 45, 84, 114, 105, 112>>,
      <<103, 111, 97, 32, 116, 114, 112>>,
      <<103, 111, 97, 32, 100, 97, 121>>,
      <<128293>> }

\* values of the limit argument of get_top_matches
Limits == {0, 2, 3}

\* values of the offset argument of get_latest_video_from_db
Offsets == 0..MaxVideos

Backends == {"rapidfuzz", "difflib"}

(***************************************************************************)
(* Catalogs of near-duplicate and reordered titles                         *)
(***************************************************************************)
\* "Summer trip to Goa part 1", "... part 2", "... part 3", "Trip Goa" and
\* "Goa Trip"
ScenarioVideos ==
    { [youtube_video_id |-> 1, title |->
          <<83, 117, 109, 109, 101, 114, 32, 116, 114, 105, 112, 32, 116, 111, 32, 71, 111, 97, 32, 112, 97, 114, 116, 32, 49>>],
      [youtube_video_id |-> 2, title |->
          <<83, 117, 109, 109, 101, 114, 32, 116, 114, 105, 112, 32, 116, 111, 32, 71, 111, 97, 32, 112, 97, 114, 116, 32, 50>>],
      [youtube_video_id |-> 3, title |->
          <<83, 117, 109, 109, 101, 114, 32, 116, 114, 105, 112, 32, 116, 111, 32, 71, 111, 97, 32, 112, 97, 114, 116, 32, 51>>],
      [youtube_video_id |-> 4, title |->
          <<84, 114, 105, 112, 32, 71, 111, 97>>],
      [youtube_video_id |-> 5, title |->
          <<71, 111, 97, 32, 84, 114, 105, 112>>] }

\* "summer trip goa", "GOA TRIP!" and "summer trip to goa part 2 #shorts"
ScenarioQueries ==
    { <<115, 117, 109, 109, 101, 114, 32, 116, 114, 105, 112, 32, 103, 111, 97>>,
      <<71, 79, 65, 32, 84, 82, 73, 80, 33>>,
      <<115, 117, 109, 109, 101, 114, 32, 116, 114, 105, 112, 32, 116, 111, 32, 103, 111, 97, 32, 112, 97, 114, 116, 32, 50, 32, 35, 115, 104, 111, 114, 116, 115>> }

\* the rows of a list of videos published in the order of the list, the
\* first one last
Dated(listed) ==
    [i \in 1..Len(listed) |->
        [youtube_video_id |-> listed[i].youtube_video_id,
         title            |-> listed[i].title,
         published_at     |-> Len(listed) + 1 - i]] \o <<>>

\* the three near-duplicate titles, newest first
NearDuplicateCatalog ==
  Dated(
    << [youtube_video_id |-> 1, title |->
          <<83, 117, 109, 109, 101, 114, 32, 116, 114, 105, 112, 32, 116, 111, 32, 71, 111, 97, 32, 112, 97, 114, 116, 32, 49>>],
       [youtube_video_id |-> 2, title |->
          <<83, 117, 109, 109, 101, 114, 32, 116, 114, 105, 112, 32, 116, 111, 32, 71, 111, 97, 32, 112, 97, 114, 116, 32, 50>>],
       [youtube_video_id |-> 3, title |->
          <<83, 117, 109, 109, 101, 114, 32, 116, 114, 105, 112, 32, 116, 111, 32, 71, 111, 97, 32, 112, 97, 114, 116, 32, 51>>] >>)

\* a catalog holds between one and three of these videos, each at most once
ScenarioCatalogs ==
    {Dated(c) : c \in {c \in UNION {[1..n -> ScenarioVideos] : n \in 1..3} :
                          \A i, j \in DOMAIN c : i /= j => c[i] /= c[j]}}

(***************************************************************************)
(* _normalize and _similarity of the pooled inputs, evaluated once         *)
(***************************************************************************)
PooledTitles == Titles \cup {v.title : v \in ScenarioVideos}

PooledQueries == Queries \cup ScenarioQueries

NormalizeCache == [text \in PooledTitles \cup PooledQueries |-> _normalize(text)]

Normalized(text) ==
    IF text \in DOMAIN NormalizeCache THEN NormalizeCache[text] ELSE _normalize(text)

SimilarityCache ==
    [be \in Backends, a \in {NormalizeCache[q] : q \in PooledQueries},
     b \in {NormalizeCache[t] : t \in PooledTitles} |-> _similarity(be, a, b)]

Similarity(be, a, b) ==
    IF <<be, a, b>> \in DOMAIN SimilarityCache
    THEN SimilarityCache[be, a, b]
    ELSE _similarity(be, a, b)

(***************************************************************************)
(* Values                                                                  *)
(***************************************************************************)
\* Python None
None == [None |-> TRUE]

\* Python None where a string is expected: no string holds this code point
NoneTitle == <<-1>>

\* video.title or ""
TitleOrEmpty(title) == IF title = NoneTitle THEN <<>> ELSE title

\* an exception that leaves a function in place of a returned value
Raised(exception) == [raised |-> exception]

\* of a record: a row, a returned dict or None
IsRaised(value) == DOMAIN value = {"raised"}

\* xs[index] of a Python list: a negative index counts from the end, an
\* index outside the list raises IndexError
ListItem(xs, index) ==
    IF index >= 0 /\ index < Len(xs) THEN xs[index + 1]
    ELSE IF index < 0 /\ Len(xs) + index >= 0 THEN xs[Len(xs) + index + 1]
    ELSE Raised("IndexError")

(***************************************************************************)
(* PostgresMemoryStore                                                     *)
(***************************************************************************)
\* get_recent_videos: the first limit rows in published_at descending
\* order; videos holds the rows of the channel in that order
get_recent_videos(table, limit) == Take(table, limit)

\* a published_at that is NULL; the dates are positive numbers
NoDate == 0

\* the video_id "" of an entry that carries none; the ids are positive numbers
NoId == 0

\* "Untitled"
Untitled == <<85, 110, 116, 105, 116, 108, 101, 100>>

\* ORDER BY published_at DESC puts x before y: NULL before every date, a
\* later date before an earlier one
Precedes(x, y) ==
    \/ x.published_at = NoDate /\ y.published_at /= NoDate
    \/ /\ x.published_at /= NoDate
       /\ y.published_at /= NoDate
       /\ x.published_at > y.published_at

\* the orders in which the store may return the rows: published_at
\* descending, rows with the same published_at in any order.  The order
\* among such rows is chosen when the table is written and kept until the
\* next write.
RECURSIVE Orderings(_)
Orderings(rows) ==
    IF rows = {} THEN {<<>>}
    ELSE UNION {{<<r>> \o rest : rest \in Orderings(rows \ {r})} :
                   r \in {r \in rows : \A x \in rows : ~Precedes(x, r)}}

\* vdata.get(key, default)
EntryGet(vdata, key, default) ==
    IF key \in DOMAIN vdata THEN vdata[key] ELSE default

\* one pass of the loop of upsert_videos.  The session holds the rows of
\* the table as loaded objects (rows), the objects added and not yet
\* flushed (added) and the two counters.  The lookup of an existing row
\* goes to the table (autoflush is off), so it does not see added objects.
\* A published_at that is missing, empty or not an ISO timestamp is NoDate.
UpsertEntry(session, vdata) ==
    LET yt_video_id == EntryGet(vdata, "video_id", NoId)
        existing == {i \in 1..Len(session.rows) :
                        session.rows[i].youtube_video_id = yt_video_id}
        published_at == EntryGet(vdata, "published_at", NoDate)
    IN  IF yt_video_id = NoId THEN session
        ELSE IF existing /= {}
        THEN [session EXCEPT
                 !.rows = [i \in 1..Len(session.rows) |->
                              IF i \in existing
                              THEN [session.rows[i] EXCEPT
                                       !.title = EntryGet(vdata, "title", @),
                                       !.published_at =
                                           IF published_at /= NoDate
                                           THEN published_at ELSE @]
                              ELSE session.rows[i]] \o <<>>,
                 !.updated = @ + 1]
        ELSE [session EXCEPT
                 !.added = Append(@, [youtube_video_id |-> yt_video_id,
                                      title |-> EntryGet(vdata, "title", Untitled),
                                      published_at |-> published_at]),
                 !.inserted = @ + 1]

RECURSIVE UpsertLoop(_, _)
UpsertLoop(session, videos_data) ==
    IF videos_data = <<>> THEN session
    ELSE UpsertLoop(UpsertEntry(session, Head(videos_data)), Tail(videos_data))

\* upsert_videos on the table: the loop, then the commit.  The commit fails
\* on two rows with the same youtube_video_id (unique constraint) and on a
\* title written as None (NOT NULL); it is then rolled back and the
\* exception raised again.  Otherwise the rows of the table after it and
\* the counts.
upsert_videos(table, videos_data) ==
    LET session == UpsertLoop([rows |-> table, added |-> <<>>,
                               inserted |-> 0, updated |-> 0], videos_data)
        all == session.rows \o session.added
    IN  IF \/ \E i, j \in 1..Len(all) :
                  i /= j /\ all[i].youtube_video_id = all[j].youtube_video_id
           \/ \E i \in 1..Len(all) :
                  /\ all[i].title = NoneTitle
                  /\ \A j \in 1..Len(table) : table[j] /= all[i]
        THEN [rows |-> {table[i] : i \in 1..Len(table)},
              ret  |-> Raised("IntegrityError")]
        ELSE [rows |-> {all[i] : i \in 1..Len(all)},
              ret  |-> [inserted |-> session.inserted, updated |-> session.updated]]

(***************************************************************************)
(* Double precision: a score with one decimal, k/10, is held as the double *)
(* nearest to it.  With 2^m <= k/10 < 2^(m+1) the unit in the last place   *)
(* is 2^(m-52), and k/10 is k * 2^(51-m) / 5 of these units, so that the   *)
(* rounding error is decided by k * 2^(51-m) modulo 5.                     *)
(***************************************************************************)
\* 2^n modulo 5
Pow2Mod5(n) == <<1, 2, 4, 3>>[(n % 4) + 1]

\* m with 2^m <= k/10 < 2^(m+1), for 1.0 <= k/10 < 128.0
Binade(k) == CHOOSE m \in 0..6 : Pow2(m) * 10 <= k /\ k < Pow2(m + 1) * 10

\* float(k/10) - k/10 in fifths of a unit in the last place
RoundErr(k) == <<0, -1, -2, 2, 1>>[((k * Pow2Mod5(51 - Binade(k))) % 5) + 1]

\* the float comparison  top_score - second_score >= gap  for scores with
\* one decimal and a gap that is a whole number of points: the subtraction
\* is exact, so the outcome differs from the decimal one only when the
\* decimal difference is the gap itself, and then the rounding errors of
\* the two operands decide
FloatGapAtLeast(top_score, second_score, gap) ==
    IF top_score - second_score /= gap THEN top_score - second_score > gap
    ELSE RoundErr(top_score) * Pow2(Binade(top_score) - Binade(second_score))
             >= RoundErr(second_score)

(***************************************************************************)
(* _decide                                                                 *)
(***************************************************************************)
\* the classifier with a gap test that ignores the high-confidence tier
_decide_GapFirst(top_score, second_score) ==
    IF top_score >= MATCH_THRESHOLD * ScoreScale
    THEN IF FloatGapAtLeast(top_score, second_score, AMBIGUITY_GAP * ScoreScale)
         THEN "accepted"
         ELSE "ambiguous"
    ELSE "rejected"

\* the classifier with a match threshold that excludes the threshold itself
_decide_StrictMatch(top_score, second_score) ==
    IF top_score >= HIGH_CONFIDENCE_THRESHOLD * ScoreScale THEN "accepted"
    ELSE IF top_score > MATCH_THRESHOLD * ScoreScale
         THEN IF FloatGapAtLeast(top_score, second_score, AMBIGUITY_GAP * ScoreScale)
              THEN "accepted"
              ELSE "ambiguous"
         ELSE "rejected"

\* the classifier that accepts every top score from the match threshold up
_decide_BandAccepted(top_score, second_score) ==
    IF top_score >= MATCH_THRESHOLD * ScoreScale THEN "accepted" ELSE "rejected"

\* the classifier with the gap taken between the decimal values of the
\* scores instead of between the doubles
_decide_DecimalGap(top_score, second_score) ==
    IF top_score >= HIGH_CONFIDENCE_THRESHOLD * ScoreScale THEN "accepted"
    ELSE IF top_score >= MATCH_THRESHOLD * ScoreScale
         THEN IF top_score - second_score >= AMBIGUITY_GAP * ScoreScale
              THEN "accepted"
              ELSE "ambiguous"
         ELSE "rejected"

_decide(top_score, second_score) ==
    IF top_score >= HIGH_CONFIDENCE_THRESHOLD * ScoreScale THEN "accepted"
    ELSE IF top_score >= MATCH_THRESHOLD * ScoreScale
         THEN IF FloatGapAtLeast(top_score, second_score, AMBIGUITY_GAP * ScoreScale)
              THEN "accepted"
              ELSE "ambiguous"
         ELSE "rejected"

(***************************************************************************)
(* Scoring and ranking                                                     *)
(***************************************************************************)
\* the scoring loop without the skip of titles that normalize to ""
ScoreVideos_KeepEmpty(be, fetched, normalized_fragment) ==
    [i \in 1..Len(fetched) |->
        [video_id |-> fetched[i].youtube_video_id,
         title    |-> fetched[i].title,
         score    |-> RoundTenths(Similarity(be, normalized_fragment,
                          Normalized(TitleOrEmpty(fetched[i].title))))]]

\* the scoring loop: one entry per video whose normalized title is not
\* empty, in catalog order
ScoreVideos(be, fetched, normalized_fragment) ==
    LET kept == SelectSeq(fetched,
                    LAMBDA v : Normalized(TitleOrEmpty(v.title)) /= <<>>)
    IN  [i \in 1..Len(kept) |->
            [video_id |-> kept[i].youtube_video_id,
             title    |-> kept[i].title,
             score    |-> RoundTenths(Similarity(be, normalized_fragment,
                              Normalized(TitleOrEmpty(kept[i].title))))]]

\* position of x in a list sorted by descending score: after the entries
\* whose score is not lower
RECURSIVE InsertDesc(_, _)
InsertDesc(x, sorted) ==
    IF sorted = <<>> THEN <<x>>
    ELSE IF x.score > Head(sorted).score THEN <<x>> \o sorted
    ELSE <<Head(sorted)>> \o InsertDesc(x, Tail(sorted))

\* a descending sort that puts the later of two equal scores first
RECURSIVE InsertDescTiesFirst(_, _)
InsertDescTiesFirst(x, sorted) ==
    IF sorted = <<>> THEN <<x>>
    ELSE IF x.score >= Head(sorted).score THEN <<x>> \o sorted
    ELSE <<Head(sorted)>> \o InsertDescTiesFirst(x, Tail(sorted))

RECURSIVE SortDescTiesFirstAcc(_, _)
SortDescTiesFirstAcc(xs, acc) ==
    IF xs = <<>> THEN acc
    ELSE SortDescTiesFirstAcc(Tail(xs), InsertDescTiesFirst(Head(xs), acc))

SortDesc_Unstable(scored) == SortDescTiesFirstAcc(scored, <<>>)

\* scored.sort(key=score, reverse=True): stable
RECURSIVE SortDescAcc(_, _)
SortDescAcc(xs, acc) ==
    IF xs = <<>> THEN acc ELSE SortDescAcc(Tail(xs), InsertDesc(Head(xs), acc))

SortDesc(scored) == SortDescAcc(scored, <<>>)

\* the clarification text: the heading, then one numbered line per candidate
ClarificationMessage(candidates) ==
    <<"I found a few similar videos. Did you mean:">>
    \o [i \in 1..Len(candidates) |-> <<i, candidates[i].title, candidates[i].score>>]

(***************************************************************************)
(* Public API, as functions of the backend and of the rows the store gave  *)
(***************************************************************************)
\* the metadata with the last score taken for the second one
ResolutionMetadata_LastAsSecond(scored) ==
    LET top_score == scored[1].score
        second_score == IF Len(scored) > 1 THEN scored[Len(scored)].score ELSE 0
    IN  [top_score    |-> top_score,
         second_score |-> second_score,
         decision     |-> _decide(top_score, second_score)]

\* the metadata with the decision taken as if there were no second score
ResolutionMetadata_DecideOnTop(scored) ==
    LET top_score == scored[1].score
        second_score == IF Len(scored) > 1 THEN scored[2].score ELSE 0
    IN  [top_score    |-> top_score,
         second_score |-> second_score,
         decision     |-> _decide(top_score, 0)]

\* top, second_score, decision and the metadata built from them
ResolutionMetadata(scored) ==
    LET top_score == scored[1].score
        second_score == IF Len(scored) > 1 THEN scored[2].score ELSE 0
    IN  [top_score    |-> top_score,
         second_score |-> second_score,
         decision     |-> _decide(top_score, second_score)]

\* the returned dict with only "rejected" sent to clarification
Respond_AmbiguousAccepted(scored, resolution_metadata) ==
    LET top == scored[1]
        candidates == Take(scored, 3)
    IN  IF resolution_metadata.decision /= "rejected"
        THEN [video_id         |-> top.video_id,
              title            |-> top.title,
              score            |-> resolution_metadata.top_score,
              video_resolution |-> resolution_metadata]
        ELSE [clarification    |-> TRUE,
              message          |-> ClarificationMessage(candidates),
              candidates       |-> candidates,
              video_resolution |-> resolution_metadata]

\* the returned dict with the candidate list also on the accepted shape
Respond_CandidatesOnAccepted(scored, resolution_metadata) ==
    LET top == scored[1]
        candidates == Take(scored, 3)
    IN  IF resolution_metadata.decision = "accepted"
        THEN [video_id         |-> top.video_id,
              title            |-> top.title,
              score            |-> resolution_metadata.top_score,
              candidates       |-> candidates,
              video_resolution |-> resolution_metadata]
        ELSE [clarification    |-> TRUE,
              message          |-> ClarificationMessage(candidates),
              candidates       |-> candidates,
              video_resolution |-> resolution_metadata]

\* the returned dict with the candidate list left whole
Respond_AllCandidates(scored, resolution_metadata) ==
    LET top == scored[1]
        candidates == scored
    IN  IF resolution_metadata.decision = "accepted"
        THEN [video_id         |-> top.video_id,
              title            |-> top.title,
              score            |-> resolution_metadata.top_score,
              video_resolution |-> resolution_metadata]
        ELSE [clarification    |-> TRUE,
              message          |-> ClarificationMessage(candidates),
              candidates       |-> candidates,
              video_resolution |-> resolution_metadata]

\* the returned dict: the top entry when the decision is "accepted", the
\* clarification with the first three entries otherwise
Respond(scored, resolution_metadata) ==
    LET top == scored[1]
        candidates == Take(scored, 3)
    IN  IF resolution_metadata.decision = "accepted"
        THEN [video_id         |-> top.video_id,
              title            |-> top.title,
              score            |-> resolution_metadata.top_score,
              video_resolution |-> resolution_metadata]
        ELSE [clarification    |-> TRUE,
              message          |-> ClarificationMessage(candidates),
              candidates       |-> candidates,
              video_resolution |-> resolution_metadata]

resolve_video_by_title(be, fetched, title_fragment) ==
    LET normalized_fragment == Normalized(title_fragment)
        scored == SortDesc(ScoreVideos(be, fetched, normalized_fragment))
    IN  IF fetched = <<>> THEN None
        ELSE IF normalized_fragment = <<>> THEN None
        ELSE IF scored = <<>> THEN None
        ELSE Respond(scored, ResolutionMetadata(scored))

\* the ranking cut to three entries whatever the limit
get_top_matches_FirstThree(be, fetched, title_fragment, limit) ==
    LET normalized_fragment == Normalized(title_fragment)
        scored == SortDesc(ScoreVideos(be, fetched, normalized_fragment))
    IN  IF fetched = <<>> THEN <<>>
        ELSE IF normalized_fragment = <<>> THEN <<>>
        ELSE Take(scored, 3)

\* the ranking with the later of two equal scores first
get_top_matches_Unstable(be, fetched, title_fragment, limit) ==
    LET normalized_fragment == Normalized(title_fragment)
        scored == SortDesc_Unstable(ScoreVideos(be, fetched, normalized_fragment))
    IN  IF fetched = <<>> THEN <<>>
        ELSE IF normalized_fragment = <<>> THEN <<>>
        ELSE Take(scored, limit)

get_top_matches(be, fetched, title_fragment, limit) ==
    LET normalized_fragment == Normalized(title_fragment)
        scored == SortDesc(ScoreVideos(be, fetched, normalized_fragment))
    IN  IF fetched = <<>> THEN <<>>
        ELSE IF normalized_fragment = <<>> THEN <<>>
        ELSE Take(scored, limit)

\* the count taken one too low
get_video_count_OffByOne(fetched) == IF fetched = <<>> THEN 0 ELSE Len(fetched) - 1

get_video_count(fetched) == Len(fetched)

\* the positional lookup that returns the newest row for every offset
get_latest_video_from_db_Newest(fetched, offset) ==
    IF Len(fetched) <= offset THEN None
    ELSE [video_id         |-> fetched[1].youtube_video_id,
          title            |-> fetched[1].title,
          score            |-> 100 * ScoreScale,
          video_resolution |-> [top_score    |-> 100 * ScoreScale,
                                second_score |-> 0,
                                decision     |-> "accepted"]]

get_latest_video_from_db(fetched, offset) ==
    LET video == ListItem(fetched, offset)
    IN  IF Len(fetched) <= offset THEN None
        ELSE IF IsRaised(video) THEN video
        ELSE [video_id         |-> video.youtube_video_id,
              title            |-> video.title,
              score            |-> 100 * ScoreScale,
              video_resolution |-> [top_score    |-> 100 * ScoreScale,
                                    second_score |-> 0,
                                    decision     |-> "accepted"]]

(***************************************************************************)
(* Invocations in flight: the local variables of one call of a resolver    *)
(* function.  pc is "idle" before the first call of the thread, "fetch"    *)
(* from the call to the read of the store, "loop" inside the scoring loop  *)
(* (next is the index of the row the loop takes next) and "done" after the *)
(* return; a frame at "done" is the invocation as it was when it returned. *)
(* overlapped tells that the call was made while another invocation was in *)
(* flight.                                                                 *)
(***************************************************************************)
\* most threads that call the resolver
MaxThreads == 2

Threads == 1..MaxThreads

NoFrame ==
    [pc |-> "idle", op |-> "", args |-> <<>>, videos |-> <<>>, next |-> 0,
     scored |-> <<>>, ret |-> None, overlapped |-> FALSE]

NoFrames == [t \in Threads |-> NoFrame]

InFlight(frame) == frame.pc \in {"fetch", "loop"}

(***************************************************************************)
(* State machine                                                           *)
(*   videos       rows of the videos table of the channel, newest first    *)
(*   backend      the similarity backend the module import selected        *)
(*   op, args     the last operation called and its arguments              *)
(*   ret          what it returned                                         *)
(*   store_calls  the limits of the get_recent_videos calls it made        *)
(*   frames       for each thread, the resolver invocation it is in or has *)
(*                finished last: the function, its arguments, its position *)
(*                and its local variables (used by the calls that run step *)
(*                by step; op, args and ret describe the calls that run as *)
(*                one step)                                                *)
(***************************************************************************)
Init ==
    /\ videos = <<>>
    /\ backend \in Backends
    /\ op = "import"
    /\ args = <<>>
    /\ ret = None
    /\ store_calls = <<>>
    /\ frames = NoFrames

\* PostgresMemoryStore.upsert_videos with the entries of videos_data, in
\* one transaction; a failed commit leaves the table as it was
UpsertVideos(videos_data) ==
    LET result == upsert_videos(videos, videos_data)
    IN  /\ IF IsRaised(result.ret)
           THEN videos' = videos
           ELSE videos' \in Orderings(result.rows)
        /\ op' = "upsert_videos"
        /\ args' = <<videos_data>>
        /\ ret' = result.ret
        /\ store_calls' = <<>>
        /\ UNCHANGED <<backend, frames>>

\* the resolver that reads the table a second time
ResolveVideoByTitle_Refetch(title_fragment) ==
    /\ op' = "resolve_video_by_title"
    /\ args' = <<title_fragment>>
    /\ ret' = resolve_video_by_title(backend,
                  get_recent_videos(videos, FETCH_LIMIT), title_fragment)
    /\ store_calls' = <<FETCH_LIMIT, FETCH_LIMIT>>
    /\ UNCHANGED <<videos, backend, frames>>

ResolveVideoByTitle(title_fragment) ==
    /\ op' = "resolve_video_by_title"
    /\ args' = <<title_fragment>>
    /\ ret' = resolve_video_by_title(backend,
                  get_recent_videos(videos, FETCH_LIMIT), title_fragment)
    /\ store_calls' = <<FETCH_LIMIT>>
    /\ UNCHANGED <<videos, backend, frames>>

GetTopMatches(title_fragment, limit) ==
    /\ op' = "get_top_matches"
    /\ args' = <<title_fragment, limit>>
    /\ ret' = get_top_matches(backend,
                  get_recent_videos(videos, FETCH_LIMIT), title_fragment, limit)
    /\ store_calls' = <<FETCH_LIMIT>>
    /\ UNCHANGED <<videos, backend, frames>>

GetVideoCount ==
    /\ op' = "get_video_count"
    /\ args' = <<>>
    /\ ret' = get_video_count(get_recent_videos(videos, 1))
    /\ store_calls' = <<1>>
    /\ UNCHANGED <<videos, backend, frames>>

GetLatestVideoFromDb(offset) ==
    /\ op' = "get_latest_video_from_db"
    /\ args' = <<offset>>
    /\ ret' = get_latest_video_from_db(get_recent_videos(videos, offset + 1), offset)
    /\ store_calls' = <<offset + 1>>
    /\ UNCHANGED <<videos, backend, frames>>

\* what a sync sends for one video: its id, a title and its publication
\* date (the videos are numbered in the order of their publication); or an
\* entry that carries no video_id
CatalogEntries ==
    {[video_id |-> k, title |-> t, published_at |-> k] :
        k \in 1..MaxVideos, t \in Titles}
    \cup {[title |-> t] : t \in Titles}

Next ==
    \/ \E vdata \in CatalogEntries : UpsertVideos(<<vdata>>)
    \/ \E q \in Queries : ResolveVideoByTitle(q)
    \/ \E q \in Queries, limit \in Limits : GetTopMatches(q, limit)
    \/ GetVideoCount
    \/ \E offset \in Offsets : GetLatestVideoFromDb(offset)

Spec == Init /\ [][Next]_vars

(***************************************************************************)
(* _decide on its own: the inputs are drawn from every pair of scores with *)
(* one decimal, the one action applies the classifier                      *)
(***************************************************************************)
\* similarity scores lie in 0..MaxScore
MaxScore == 100

Scores == 0..(MaxScore * ScoreScale)

InitDecide ==
    /\ videos = <<>>
    /\ backend = "rapidfuzz"
    /\ op = "input"
    /\ args \in Scores \X Scores
    /\ ret = None
    /\ store_calls = <<>>
    /\ frames = NoFrames

Decide ==
    /\ op = "input"
    /\ op' = "_decide"
    /\ ret' = _decide(args[1], args[2])
    /\ UNCHANGED <<videos, backend, args, store_calls, frames>>

NextDecide == Decide

SpecDecide == InitDecide /\ [][NextDecide]_vars

(***************************************************************************)
(* _normalize on its own: the input is drawn from every text of at most    *)
(* MaxTextLen characters of NormChars; one action applies _normalize to    *)
(* the input, a second one applies it to the result of the first           *)
(***************************************************************************)
\* longest input text of _normalize
MaxTextLen == 3

\* "A", "a", space, "#", "_", "!", e-acute, double-struck capital C,
\* fullwidth number sign and the fire emoji
NormChars == {65, 97, 32, 35, 95, 33, 233, 8450, 65283, 128293}

Texts == UNION {[1..n -> NormChars] : n \in 0..MaxTextLen}

InitNormalize ==
    /\ videos = <<>>
    /\ backend = "rapidfuzz"
    /\ op = "input"
    /\ args \in {<<text>> : text \in Texts}
    /\ ret = None
    /\ store_calls = <<>>
    /\ frames = NoFrames

\* _normalize(x)
Normalize ==
    /\ op = "input"
    /\ op' = "_normalize"
    /\ ret' = _normalize(args[1])
    /\ UNCHANGED <<videos, backend, args, store_calls, frames>>

\* _normalize(_normalize(x)): args keeps x and the result of the first call
NormalizeAgain ==
    /\ op = "_normalize"
    /\ op' = "_normalize_again"
    /\ args' = <<args[1], ret>>
    /\ ret' = _normalize(ret)
    /\ UNCHANGED <<videos, backend, store_calls, frames>>

NextNormalize == Normalize \/ NormalizeAgain

SpecNormalize == InitNormalize /\ [][NextNormalize]_vars

(***************************************************************************)
(* _similarity on its own: the two normalized strings are drawn from       *)
(* SimStrings and the backend from Backends; the one action scores them    *)
(***************************************************************************)
\* "za b1", "a b2", "goa t", "my goa trip", "goa tr", "oa t", "trip goa"
\* and "goa"
SimStrings ==
    { <<122, 97, 32, 98, 49>>,
      <<97, 32, 98, 50>>,
      <<103, 111, 97, 32, 116>>,
      <<109, 121, 32, 103, 111, 97, 32, 116, 114, 105, 112>>,
      <<103, 111, 97, 32, 116, 114>>,
      <<111, 97, 32, 116>>,
      <<116, 114, 105, 112, 32, 103, 111, 97>>,
      <<103, 111, 97>> }

InitSimilarity ==
    /\ videos = <<>>
    /\ backend \in Backends
    /\ op = "input"
    /\ args \in SimStrings \X SimStrings
    /\ ret = None
    /\ store_calls = <<>>
    /\ frames = NoFrames

\* _similarity(a, b), before any rounding
Score ==
    /\ op = "input"
    /\ op' = "_similarity"
    /\ ret' = _similarity(backend, args[1], args[2])
    /\ UNCHANGED <<videos, backend, args, store_calls, frames>>

NextSimilarity == Score

SpecSimilarity == InitSimilarity /\ [][NextSimilarity]_vars

(***************************************************************************)
(* resolve_video_by_title on the catalogs of ScenarioCatalogs              *)
(***************************************************************************)
InitScenario ==
    /\ videos \in ScenarioCatalogs
    /\ backend \in Backends
    /\ op = "import"
    /\ args = <<>>
    /\ ret = None
    /\ store_calls = <<>>
    /\ frames = NoFrames

NextScenario == \E q \in ScenarioQueries : ResolveVideoByTitle(q)

SpecScenario == InitScenario /\ [][NextScenario]_vars

(***************************************************************************)
(* Invocations on several threads, step by step, with catalog syncs in     *)
(* between.  A step of a thread is the call, the read of the store with    *)
(* the code up to the scoring loop, one turn of the loop, or the code      *)
(* after the loop up to the return; the steps of different threads         *)
(* interleave in any order.                                                *)
(***************************************************************************)
\* "Goa Trip 1!" and "My Goa Trip #fun"
CallTitles ==
    << <<71, 111, 97, 32, 84, 114, 105, 112, 32, 49, 33>>,
       <<77, 121, 32, 71, 111, 97, 32, 84, 114, 105, 112, 32, 35, 102, 117, 110>> >>

\* "goa trp"
CallQuery == <<103, 111, 97, 32, 116, 114, 112>>

\* "goa trp" and "goa day"
CallQueries == {CallQuery, <<103, 111, 97, 32, 100, 97, 121>>}

\* what a sync sends for one video: the two videos with their titles
CallEntries ==
    {[video_id |-> k, title |-> CallTitles[k], published_at |-> k] : k \in {1, 2}}

\* the calls a thread makes
ThreadCalls ==
    { [op |-> "resolve_video_by_title", args |-> <<CallQuery>>],
      [op |-> "get_top_matches", args |-> <<CallQuery, 2>>],
      [op |-> "get_latest_video_from_db", args |-> <<0>>] }

\* a thread calls a resolver function: a new frame
Invoke(t, call) ==
    /\ ~InFlight(frames[t])
    /\ frames' = [frames EXCEPT ![t] =
           [NoFrame EXCEPT !.pc = "fetch", !.op = call.op, !.args = call.args,
                           !.overlapped = \E u \in Threads : InFlight(frames[u])]]
    /\ UNCHANGED <<videos, backend, op, args, ret, store_calls>>

\* the read of the store with a scored list that outlives the calls: it
\* still holds what the finished invocations of the other threads put in
Fetch_KeptScored(t) ==
    LET frame == frames[t]
        fetched == get_recent_videos(videos,
                       IF frame.op = "get_latest_video_from_db"
                       THEN frame.args[1] + 1 ELSE FETCH_LIMIT)
        kept == Flatten([u \in Threads |->
                    IF u /= t /\ frames[u].pc = "done" THEN frames[u].scored ELSE <<>>])
    IN  /\ frame.pc = "fetch"
        /\ frames' = [frames EXCEPT ![t] =
               IF frame.op = "get_latest_video_from_db"
               THEN [frame EXCEPT !.pc = "done", !.videos = fetched,
                        !.ret = get_latest_video_from_db(fetched, frame.args[1])]
               ELSE IF fetched = <<>> \/ Normalized(frame.args[1]) = <<>>
               THEN [frame EXCEPT !.pc = "done", !.videos = fetched,
                        !.ret = IF frame.op = "get_top_matches" THEN <<>> ELSE None]
               ELSE [frame EXCEPT !.pc = "loop", !.videos = fetched,
                        !.scored = kept, !.next = 1]]
        /\ UNCHANGED <<videos, backend, op, args, ret, store_calls>>

\* store.get_recent_videos and the code up to the scoring loop: the
\* positional lookup returns here, the two scoring functions return here
\* when no row came back or the fragment normalizes to "", and start an
\* empty scored list otherwise
Fetch(t) ==
    LET frame == frames[t]
        fetched == get_recent_videos(videos,
                       IF frame.op = "get_latest_video_from_db"
                       THEN frame.args[1] + 1 ELSE FETCH_LIMIT)
    IN  /\ frame.pc = "fetch"
        /\ frames' = [frames EXCEPT ![t] =
               IF frame.op = "get_latest_video_from_db"
               THEN [frame EXCEPT !.pc = "done", !.videos = fetched,
                        !.ret = get_latest_video_from_db(fetched, frame.args[1])]
               ELSE IF fetched = <<>> \/ Normalized(frame.args[1]) = <<>>
               THEN [frame EXCEPT !.pc = "done", !.videos = fetched,
                        !.ret = IF frame.op = "get_top_matches" THEN <<>> ELSE None]
               ELSE [frame EXCEPT !.pc = "loop", !.videos = fetched,
                        !.scored = <<>>, !.next = 1]]
        /\ UNCHANGED <<videos, backend, op, args, ret, store_calls>>

\* one turn of the scoring loop: the next row the invocation fetched is
\* scored and appended to its scored list, or skipped
ScoreNext(t) ==
    LET frame == frames[t]
    IN  /\ frame.pc = "loop"
        /\ frame.next <= Len(frame.videos)
        /\ frames' = [frames EXCEPT ![t] =
               [frame EXCEPT
                   !.scored = @ \o ScoreVideos(backend, <<frame.videos[frame.next]>>,
                                      Normalized(frame.args[1])),
                   !.next = @ + 1]]
        /\ UNCHANGED <<videos, backend, op, args, ret, store_calls>>

\* the code after the loop: the sort, and the decision and the returned
\* dict of resolve_video_by_title or the slice of get_top_matches
Return(t) ==
    LET frame == frames[t]
        scored == SortDesc(frame.scored)
    IN  /\ frame.pc = "loop"
        /\ frame.next > Len(frame.videos)
        /\ frames' = [frames EXCEPT ![t] =
               [frame EXCEPT
                   !.pc = "done",
                   !.scored = scored,
                   !.ret = IF frame.op = "get_top_matches" THEN Take(scored, frame.args[2])
                           ELSE IF scored = <<>> THEN None
                           ELSE Respond(scored, ResolutionMetadata(scored))]]
        /\ UNCHANGED <<videos, backend, op, args, ret, store_calls>>

NextThreads ==
    \/ \E vdata \in CallEntries : UpsertVideos(<<vdata>>)
    \/ \E t \in Threads, call \in ThreadCalls : Invoke(t, call)
    \/ \E t \in Threads : Fetch(t)
    \/ \E t \in Threads : ScoreNext(t)
    \/ \E t \in Threads : Return(t)

SpecThreads == Init /\ [][NextThreads]_vars

(***************************************************************************)
(* Catalog syncs of every shape against the count: an entry carries any of  *)
(* video_id, title and published_at, a sync sends one entry or two, and    *)
(* the same video may come with another date or with none.                 *)
(***************************************************************************)
\* the ids a sync names are 1..MaxSyncVideos
MaxSyncVideos == 2

\* the publication dates a sync carries
SyncDates == {1, 2}

\* the fire emoji followed by "!"
SyncTitle == <<128293, 33>>

\* the entry with the given fields; NoId, NoneTitle and NoDate leave the
\* field out
SyncEntry(video_id, title, published_at) ==
    [key \in (IF video_id = NoId THEN {} ELSE {"video_id"})
              \cup (IF title = NoneTitle THEN {} ELSE {"title"})
              \cup (IF published_at = NoDate THEN {} ELSE {"published_at"}) |->
        CASE key = "video_id" -> video_id
          [] key = "title" -> title
          [] OTHER -> published_at]

SyncEntries ==
    {SyncEntry(k, t, d) : k \in {NoId} \cup 1..MaxSyncVideos,
                          t \in {NoneTitle, SyncTitle},
                          d \in {NoDate} \cup SyncDates}

\* one entry; or two entries for the same video, the first one without a
\* title and the second one complete
SyncBatches ==
    {<<vdata>> : vdata \in SyncEntries}
    \cup {<<SyncEntry(k, NoneTitle, d), SyncEntry(k, SyncTitle, e)>> :
             k \in 1..MaxSyncVideos, d \in {NoDate} \cup SyncDates, e \in SyncDates}

NextSync ==
    \/ \E videos_data \in SyncBatches : UpsertVideos(videos_data)
    \/ \E q \in CallQueries : ResolveVideoByTitle(q)
    \/ GetVideoCount

SpecSync == Init /\ [][NextSync]_vars

(***************************************************************************)
(* The four read operations against a store that may fail: the table is    *)
(* any list of at most MaxFailVideos rows, a title being a string or None, *)
(* and each get_recent_videos call either returns rows or raises.  Here    *)
(* store_calls holds, for each call, its limit and its outcome.            *)
(***************************************************************************)
\* most rows of the table
MaxFailVideos == 2

\* the titles by number: None and "Goa Trip 1!"
FailTitle(k) ==
    IF k = 0 THEN NoneTitle ELSE <<71, 111, 97, 32, 84, 114, 105, 112, 32, 49, 33>>

\* the table with the titles numbered by t, newest first, ids numbered in
\* insertion order
FailCatalog(t) ==
    [i \in 1..Len(t) |->
        [youtube_video_id |-> Len(t) + 1 - i, title |-> FailTitle(t[i]),
         published_at |-> Len(t) + 1 - i]] \o <<>>

\* "goa trp" and "!"
FailQueries == { <<103, 111, 97, 32, 116, 114, 112>>, <<33>> }

FailOffsets == (-1)..MaxFailVideos

\* what a get_recent_videos call does: return the rows, or raise the
\* exception of the session after logging it
StoreOutcomes == {"rows", "OperationalError"}

\* the store call that dropped the exception and gave no value
Propagate_Caught(outcome, value) == IF outcome = "rows" THEN value ELSE None

\* videos = store.get_recent_videos(...) outside any try: when the store
\* raises, the exception leaves the resolver function in place of a value
Propagate(outcome, value) == IF outcome = "rows" THEN value ELSE Raised(outcome)

InitFailure ==
    /\ \E n \in 0..MaxFailVideos : \E t \in [1..n -> {0, 1}] :
           videos = FailCatalog(t)
    /\ backend \in Backends
    /\ op = "import"
    /\ args = <<>>
    /\ ret = None
    /\ store_calls = <<>>
    /\ frames = NoFrames

ResolveVideoByTitleOn(outcome, title_fragment) ==
    /\ op' = "resolve_video_by_title"
    /\ args' = <<title_fragment>>
    /\ ret' = Propagate(outcome,
                  resolve_video_by_title(backend,
                      get_recent_videos(videos, FETCH_LIMIT), title_fragment))
    /\ store_calls' = <<[limit |-> FETCH_LIMIT, outcome |-> outcome]>>
    /\ UNCHANGED <<videos, backend, frames>>

GetTopMatchesOn(outcome, title_fragment, limit) ==
    /\ op' = "get_top_matches"
    /\ args' = <<title_fragment, limit>>
    /\ ret' = Propagate(outcome,
                  get_top_matches(backend,
                      get_recent_videos(videos, FETCH_LIMIT), title_fragment, limit))
    /\ store_calls' = <<[limit |-> FETCH_LIMIT, outcome |-> outcome]>>
    /\ UNCHANGED <<videos, backend, frames>>

GetVideoCountOn(outcome) ==
    /\ op' = "get_video_count"
    /\ args' = <<>>
    /\ ret' = Propagate(outcome, get_video_count(get_recent_videos(videos, 1)))
    /\ store_calls' = <<[limit |-> 1, outcome |-> outcome]>>
    /\ UNCHANGED <<videos, backend, frames>>

GetLatestVideoFromDbOn(outcome, offset) ==
    /\ op' = "get_latest_video_from_db"
    /\ args' = <<offset>>
    /\ ret' = Propagate(outcome,
                  get_latest_video_from_db(
                      get_recent_videos(videos, offset + 1), offset))
    /\ store_calls' = <<[limit |-> offset + 1, outcome |-> outcome]>>
    /\ UNCHANGED <<videos, backend, frames>>

NextFailure ==
    \/ \E outcome \in StoreOutcomes, q \in FailQueries :
           ResolveVideoByTitleOn(outcome, q)
    \/ \E outcome \in StoreOutcomes, q \in FailQueries, limit \in Limits :
           GetTopMatchesOn(outcome, q, limit)
    \/ \E outcome \in StoreOutcomes : GetVideoCountOn(outcome)
    \/ \E outcome \in StoreOutcomes, offset \in FailOffsets :
           GetLatestVideoFromDbOn(outcome, offset)

SpecFailure == InitFailure /\ [][NextFailure]_vars

(***************************************************************************)
(* Properties.  After resolve_video_by_title the table is the one the call *)
(* read, so the ranking the call had to produce is restated here from the  *)
(* table, without the sort of the model.                                   *)
(***************************************************************************)
Resolved == op = "resolve_video_by_title"

\* the rows the call read, and the positions among them that were scored
ReadRows == get_recent_videos(videos, FETCH_LIMIT)

ScoredPos == {i \in 1..Len(ReadRows) : Normalized(ReadRows[i].title) /= <<>>}

ScoreAt(i) ==
    RoundTenths(Similarity(backend, Normalized(args[1]), Normalized(ReadRows[i].title)))

EntryAt(i) ==
    [video_id |-> ReadRows[i].youtube_video_id,
     title    |-> ReadRows[i].title,
     score    |-> ScoreAt(i)]

\* rank of a scored position: higher scores first, equal scores in catalog order
RankOf(i) ==
    1 + Cardinality({j \in ScoredPos : ScoreAt(j) > ScoreAt(i)})
      + Cardinality({j \in ScoredPos : j < i /\ ScoreAt(j) = ScoreAt(i)})

PosAtRank(r) == CHOOSE i \in ScoredPos : RankOf(i) = r

\* a decision was computed: the call got past its three early returns
Computed ==
    /\ ReadRows /= <<>>
    /\ Normalized(args[1]) /= <<>>
    /\ ScoredPos /= {}

ExpectedSecond ==
    IF Cardinality(ScoredPos) >= 2 THEN ScoreAt(PosAtRank(2)) ELSE 0

ExpectedDecision == _decide(ScoreAt(PosAtRank(1)), ExpectedSecond)

IsNoMatch == ret = None

IsAccepted == "video_id" \in DOMAIN ret /\ "clarification" \notin DOMAIN ret

IsClarification == "clarification" \in DOMAIN ret /\ ret.clarification = TRUE

\* C1: every call of resolve_video_by_title returns exactly one of None, the
\* accepted shape (video_id, no clarification flag) and the clarification
\* shape (clarification = True); the accepted shape exactly when the computed
\* decision is "accepted", the clarification shape exactly when it is
\* "ambiguous" or "rejected"
C1_ThreeShapes ==
    Resolved =>
        /\ Cardinality({k \in 1..3 : <<IsNoMatch, IsAccepted, IsClarification>>[k]}) = 1
        /\ "video_id" \notin DOMAIN ret \/ "clarification" \notin DOMAIN ret
        /\ IsAccepted <=> (Computed /\ ExpectedDecision = "accepted")
        /\ IsClarification <=> (Computed /\ ExpectedDecision \in {"ambiguous", "rejected"})

\* an ambiguous decision answered with a clarification
C1_Witness ==
    /\ Resolved
    /\ IsClarification
    /\ Computed
    /\ ExpectedDecision = "ambiguous"

\* C2: an accepted result names a scored candidate whose score is the highest
\* of all scored candidates, and among the candidates with that score the one
\* earliest in catalog order
C2_AcceptedIsEarliestMaximum ==
    (Resolved /\ IsAccepted) =>
        \E i \in ScoredPos :
            /\ ret.video_id = ReadRows[i].youtube_video_id
            /\ ret.title = ReadRows[i].title
            /\ ret.score = ScoreAt(i)
            /\ \A j \in ScoredPos : ScoreAt(j) <= ScoreAt(i)
            /\ \A j \in ScoredPos : j < i => ScoreAt(j) < ScoreAt(i)

\* accepted while a later video with another title has the same top score
C2_Witness ==
    /\ Resolved
    /\ IsAccepted
    /\ \E i, j \in ScoredPos :
          /\ i < j
          /\ ret.video_id = ReadRows[i].youtube_video_id
          /\ ScoreAt(j) = ScoreAt(i)
          /\ ReadRows[j].title /= ReadRows[i].title

\* C3: for every top_score >= 85 and every second_score, _decide returns
\* "accepted"
C3_HighConfidenceAccepted ==
    (op = "_decide" /\ args[1] >= 850) => ret = "accepted"

\* a top score of 85.0 with a runner-up of 84.9
C3_Witness == op = "_decide" /\ args = <<850, 849>> /\ ret = "accepted"

\* the double that the score with one decimal k/10 denotes
ScoreDouble(k) == DivDouble(k, 10)

\* top_score - second_score >= gap over the reals, for the two doubles that
\* the scores denote and a gap that is a whole number of tenths
DoubleGapAtLeast(top_score, second_score, gap) ==
    FracGeq(ScoreDouble(top_score),
            [ScoreDouble(second_score) EXCEPT !.num = @ + gap])

\* C4: for 70 <= top_score < 85, _decide returns "accepted" exactly when
\* top_score - second_score >= 10 and "ambiguous" otherwise, the boundaries
\* top_score = 70 and gap exactly 10 included; the two scores are the
\* doubles the call receives and the difference is the one of these doubles
C4_GapDecides ==
    (op = "_decide" /\ args[1] >= 700 /\ args[1] < 850) =>
        /\ ret = "accepted" <=> DoubleGapAtLeast(args[1], args[2], 100)
        /\ ret = "ambiguous" <=> ~DoubleGapAtLeast(args[1], args[2], 100)

\* top_score 70.0 and second_score 60.0: both boundaries at once
C4_Witness == op = "_decide" /\ args = <<700, 600>> /\ ret = "accepted"

\* C5: _decide has exactly three outcomes and returns "rejected" exactly when
\* top_score < 70, whatever second_score is
C5_RejectedBelowMatchThreshold ==
    op = "_decide" =>
        /\ ret \in {"accepted", "ambiguous", "rejected"}
        /\ ret = "rejected" <=> args[1] < 700

\* a top score of 69.9 rejected with no runner-up, and 70.0 not rejected
C5_Witness == op = "_decide" /\ args = <<699, 0>> /\ ret = "rejected"

\* C6: resolve_video_by_title returns None exactly when the catalog is empty,
\* or the query normalizes to "", or every title normalizes to ""; every
\* other result carries the resolution metadata
C6_NoMatchCases ==
    Resolved =>
        /\ IsNoMatch <=>
              \/ ReadRows = <<>>
              \/ _normalize(args[1]) = <<>>
              \/ \A i \in 1..Len(ReadRows) : _normalize(ReadRows[i].title) = <<>>
        /\ ~IsNoMatch => "video_resolution" \in DOMAIN ret

\* None for a usable query on a catalog whose titles all normalize to ""
C6_Witness ==
    /\ Resolved
    /\ IsNoMatch
    /\ Len(ReadRows) >= 2
    /\ _normalize(args[1]) /= <<>>

\* C7: the keys of an accepted result are exactly video_id, title, score and
\* video_resolution
C7_AcceptedKeys ==
    (Resolved /\ ~IsNoMatch /\ ret.video_resolution.decision = "accepted") =>
        DOMAIN ret = {"video_id", "title", "score", "video_resolution"}

\* accepted by the gap rule with a runner-up that was scored
C7_Witness ==
    /\ Resolved
    /\ ~IsNoMatch
    /\ ret.video_resolution.decision = "accepted"
    /\ ret.video_resolution.top_score < 850
    /\ ret.video_resolution.second_score > 0

\* C8: a clarification has no video_id, and its candidates are the first
\* min(3, number of scored candidates) entries of the ranking: between one
\* and three entries, in order of non-increasing score
C8_ClarificationCandidates ==
    (Resolved /\ ~IsNoMatch /\ ret.video_resolution.decision \in {"ambiguous", "rejected"}) =>
        /\ "video_id" \notin DOMAIN ret
        /\ Len(ret.candidates) = Min2(3, Cardinality(ScoredPos))
        /\ Len(ret.candidates) \in 1..3
        /\ \A k \in 1..Len(ret.candidates) : ret.candidates[k] = EntryAt(PosAtRank(k))
        /\ \A k \in 1..(Len(ret.candidates) - 1) :
              ret.candidates[k].score >= ret.candidates[k + 1].score

\* a clarification over more than three scored candidates, cut to three
C8_Witness ==
    /\ Resolved
    /\ IsClarification
    /\ Cardinality(ScoredPos) > 3
    /\ Len(ret.candidates) = 3
    /\ ret.candidates[1].score > ret.candidates[3].score

\* C9: in the metadata of every result other than None, top_score is the
\* score of the first-ranked candidate and second_score that of the
\* second-ranked one, or 0.0 when fewer than two were scored; so top_score
\* is never below second_score
C9_MetadataScores ==
    (Resolved /\ ~IsNoMatch) =>
        /\ ret.video_resolution.top_score = ScoreAt(PosAtRank(1))
        /\ ret.video_resolution.second_score = ExpectedSecond
        /\ Cardinality(ScoredPos) < 2 => ret.video_resolution.second_score = 0
        /\ ret.video_resolution.top_score >= ret.video_resolution.second_score

\* three scored candidates whose second and third scores differ
C9_Witness ==
    /\ Resolved
    /\ ~IsNoMatch
    /\ Cardinality(ScoredPos) >= 3
    /\ ScoreAt(PosAtRank(2)) > ScoreAt(PosAtRank(3))
    /\ ret.video_resolution.second_score = ScoreAt(PosAtRank(2))

\* C10: for a catalog of N videos and an offset >= 0, get_latest_video_from_db
\* returns None when offset >= N and otherwise the accepted shape for the
\* video at position offset of the whole catalog, with score 100.0 and the
\* metadata (100.0, 0.0, accepted), after fetching offset + 1 rows
C10_LatestByOffset ==
    op = "get_latest_video_from_db" =>
        /\ store_calls = <<args[1] + 1>>
        /\ IF args[1] >= Len(videos)
           THEN ret = None
           ELSE ret = [video_id         |-> videos[args[1] + 1].youtube_video_id,
                       title            |-> videos[args[1] + 1].title,
                       score            |-> 1000,
                       video_resolution |-> [top_score    |-> 1000,
                                             second_score |-> 0,
                                             decision     |-> "accepted"]]

\* the second newest of four videos, found after fetching two rows
C10_Witness ==
    /\ op = "get_latest_video_from_db"
    /\ args = <<1>>
    /\ Len(videos) = 4
    /\ ret /= None
    /\ ret.video_id = videos[2].youtube_video_id
    /\ ret.video_id /= videos[1].youtube_video_id

\* C12: _normalize is idempotent: _normalize(_normalize(x)) = _normalize(x)
\* for every input x
C12_NormalizeIdempotent ==
    op = "_normalize_again" => ret = args[2]

\* C13: for every input x, _normalize(x) contains no emoji code point and no
\* "#" character
C13_NoEmojiNoHash ==
    op = "_normalize" =>
        \A i \in 1..Len(ret) : ~IsEmoji(ret[i]) /\ ret[i] /= 35 /\ ret[i] /= 65283

\* an input with an emoji, a "#" not followed by a word character and a
\* letter, of which the letter is all that is left
C13_Witness ==
    /\ op = "_normalize"
    /\ \E i, j \in 1..Len(args[1]) : IsEmoji(args[1][i]) /\ args[1][j] \in {35, 65283}
    /\ ret = <<97>>

Scored == op = "_similarity"

SameFrac(x, y) == FracGeq(x, y) /\ FracGeq(y, x)

ShorterLen == Min2(Len(args[1]), Len(args[2]))

\* the greater of the token-set and token-sort ratios of the two strings
TokenBest ==
    FracMax(FuzzTokenSetRatio(args[1], args[2]), FuzzTokenSortRatio(args[1], args[2]))

\* C14, as stated: the score is the maximum over the character ratio, the
\* token-set ratio, the token-sort ratio and (when eligible) the partial
\* ratio, so it is never lower than the character ratio
C14_MaxOfFour ==
    (Scored /\ backend = "rapidfuzz") =>
        /\ FracGeq(ret, FuzzRatio(args[1], args[2]))
        /\ FracGeq(ret, TokenBest)
        /\ \/ SameFrac(ret, FuzzRatio(args[1], args[2]))
           \/ SameFrac(ret, TokenBest)
           \/ SameFrac(ret, FuzzPartialRatio(args[1], args[2]))

\* C14, amended: with rapidfuzz the score is the maximum over the token-set
\* ratio, the token-sort ratio and, when the shorter string has more than 4
\* characters, the partial ratio; the character ratio is not part of it.
\* With the difflib fallback the score is the maximum of the SequenceMatcher
\* ratio and, when both strings have tokens, the Jaccard index of the tokens
C14_MaxOfThree ==
    Scored =>
        /\ backend = "rapidfuzz" =>
              SameFrac(ret,
                  IF ShorterLen > 4
                  THEN FracMax(TokenBest, FuzzPartialRatio(args[1], args[2]))
                  ELSE TokenBest)
        /\ backend = "difflib" =>
              SameFrac(ret,
                  IF TokenSet(args[1]) = {} \/ TokenSet(args[2]) = {}
                  THEN SeqScore(args[1], args[2])
                  ELSE FracMax(SeqScore(args[1], args[2]),
                           Times100(DivDouble(
                               Cardinality(TokenSet(args[1]) \cap TokenSet(args[2])),
                               Cardinality(TokenSet(args[1]) \cup TokenSet(args[2]))))))

\* a rapidfuzz score below the character ratio of the two strings
C14_Witness ==
    /\ Scored
    /\ backend = "rapidfuzz"
    /\ ~FracGeq(ret, FuzzRatio(args[1], args[2]))

\* C15, as stated: the partial ratio contributes only when the shorter
\* string has more than 5 characters; with 5 or less it contributes 0
C15_PartialAboveFive ==
    (Scored /\ backend = "rapidfuzz" /\ ShorterLen <= 5) => SameFrac(ret, TokenBest)

\* C15, amended: the partial ratio contributes only when the shorter string
\* has more than 4 characters; with 4 or less it contributes 0, and from 5
\* characters on the score is never below the partial ratio
C15_PartialAboveFour ==
    (Scored /\ backend = "rapidfuzz") =>
        /\ ShorterLen <= 4 => SameFrac(ret, TokenBest)
        /\ ShorterLen > 4 => FracGeq(ret, FuzzPartialRatio(args[1], args[2]))

\* a shorter string of 4 characters whose partial ratio, left out, is above
\* the score
C15_Witness ==
    /\ Scored
    /\ backend = "rapidfuzz"
    /\ ShorterLen = 4
    /\ ~FracGeq(ret, FuzzPartialRatio(args[1], args[2]))

\* C11: for any catalog and any candidate of it whose title normalizes to a
\* non-empty string, a query with the same normalized text as the title is
\* answered with the accepted shape, and the accepted video_id is that
\* candidate's
C11_ExactTitleAccepted ==
    Resolved =>
        \A i \in 1..Len(ReadRows) :
            (/\ Normalized(ReadRows[i].title) /= <<>>
             /\ Normalized(ReadRows[i].title) = Normalized(args[1])) =>
                /\ IsAccepted
                /\ ret.video_id = ReadRows[i].youtube_video_id

\* C17: on the catalog of the three near-duplicate titles the query
\* "summer trip goa" is answered with a clarification that lists at least
\* two candidates, and no video is selected
C17_NearDuplicatesClarified ==
    (Resolved /\ videos = NearDuplicateCatalog
              /\ Normalized(args[1]) = <<115, 117, 109, 109, 101, 114, 32,
                                         116, 114, 105, 112, 32, 103, 111, 97>>) =>
        /\ IsClarification
        /\ "video_id" \notin DOMAIN ret
        /\ Len(ret.candidates) >= 2

\* C16: the outcome of a resolver call is a function of its query and of the
\* catalog it reads: whatever the interleaving of the steps of
\* resolve_video_by_title, get_top_matches and get_latest_video_from_db
\* invocations and of catalog syncs, two finished invocations of the same
\* function with the same arguments that read the same rows returned the
\* same outcome
C16_SameInputsSameOutcome ==
    \A t, u \in Threads :
        (/\ frames[t].pc = "done"
         /\ frames[u].pc = "done"
         /\ frames[t].op = frames[u].op
         /\ frames[t].args = frames[u].args
         /\ frames[t].videos = frames[u].videos) => frames[t].ret = frames[u].ret

\* two threads resolved the same query, the second one called while an
\* invocation was in flight; each read the same two rows and scored them
\* one by one, and both ended in the same clarification
C16_Witness ==
    \E t, u \in Threads :
        /\ t /= u
        /\ frames[t].pc = "done" /\ frames[u].pc = "done"
        /\ frames[t].op = "resolve_video_by_title" /\ frames[u].op = frames[t].op
        /\ frames[t].args = frames[u].args
        /\ Len(frames[t].videos) = 2 /\ frames[t].videos = frames[u].videos
        /\ frames[u].overlapped
        /\ frames[t].ret /= None
        /\ "clarification" \in DOMAIN frames[t].ret
        /\ frames[t].ret = frames[u].ret

TopMatched == op = "get_top_matches"

\* C18: get_top_matches returns the empty list when the catalog is empty or
\* the query normalizes to ""; otherwise, for a limit >= 0, the first
\* min(limit, number of scored candidates) entries of the ranking that
\* resolve computes, each with exactly video_id, title and score
C18_TopMatchesIsRankingPrefix ==
    TopMatched =>
        /\ (ReadRows = <<>> \/ Normalized(args[1]) = <<>>) => ret = <<>>
        /\ Len(ret) = IF ReadRows = <<>> \/ Normalized(args[1]) = <<>>
                      THEN 0
                      ELSE Min2(args[2], Cardinality(ScoredPos))
        /\ \A k \in 1..Len(ret) :
              /\ ret[k] = EntryAt(PosAtRank(k))
              /\ DOMAIN ret[k] = {"video_id", "title", "score"}

\* a limit of 2 on three scored candidates, the two kept tied in score
C18_Witness ==
    /\ TopMatched
    /\ args[2] = 2
    /\ Cardinality(ScoredPos) >= 3
    /\ Len(ret) = 2
    /\ ret[1].score = ret[2].score
    /\ ret[1].video_id /= ret[2].video_id

\* C19: get_video_count returns the number of videos stored for the channel,
\* for a catalog of any size
C19_CountIsCatalogSize ==
    op = "get_video_count" => ret = Len(videos)

\* C20: in any sequence of catalog syncs and resolver calls,
\* get_video_count is 0 exactly in the states where the catalog is empty and
\* above 0 whenever the catalog holds a video; a catalog that holds a video
\* never becomes empty again, so that a sync gated on a count of 0 can
\* trigger only before the catalog is first populated
C20_ColdStartGate ==
    /\ [](op = "get_video_count" =>
            /\ ret = 0 <=> videos = <<>>
            /\ videos /= <<>> => ret > 0)
    /\ [][videos /= <<>> => videos' /= <<>>]_vars

\* a count above 0 on a catalog of two videos whose titles all normalize to
\* "", on which every resolve returns None
C20_Witness ==
    /\ op = "get_video_count"
    /\ Len(videos) >= 2
    /\ \A i \in 1..Len(videos) : Normalized(videos[i].title) = <<>>
    /\ ret > 0

(***************************************************************************)
(* The failing paths                                                       *)
(***************************************************************************)
StoreRaised == store_calls /= <<>> /\ store_calls[1].outcome /= "rows"

\* C21: no call has a failing path when the store returns a list:
\* get_latest_video_from_db returns None or the accepted dict for every
\* integer offset, negative ones included; resolve_video_by_title returns
\* one of its three shapes and get_top_matches a list of entries for every
\* query and every catalog, rows whose title is None included
C21_NoFailingPath ==
    (op /= "import" /\ ~StoreRaised) =>
        /\ op = "get_latest_video_from_db" =>
               \/ ret = None
               \/ DOMAIN ret = {"video_id", "title", "score", "video_resolution"}
        /\ op = "resolve_video_by_title" =>
               IsNoMatch \/ IsAccepted \/ IsClarification
        /\ op = "get_top_matches" =>
               \A k \in 1..Len(ret) : DOMAIN ret[k] = {"video_id", "title", "score"}

\* C22: when the store raises, each of the four operations ends with that
\* same exception, after the one store call it made: it is not caught,
\* retried or turned into a returned value
C22_StoreFailurePropagates ==
    (op \in {"resolve_video_by_title", "get_top_matches", "get_video_count",
              "get_latest_video_from_db"} /\ StoreRaised) =>
        /\ Len(store_calls) = 1
        /\ ret = Raised(store_calls[1].outcome)

C22_Witness ==
    /\ op = "get_latest_video_from_db"
    /\ videos /= <<>>
    /\ StoreRaised
    /\ ret = Raised("OperationalError")

(***************************************************************************)
(* _normalize: hashtags, character classes, accents                        *)
(***************************************************************************)
\* C23: hashtags are removed as whole tokens and nothing else goes with
\* them: the normal form of a text is the normal form of the text with
\* every '#' and the word characters that follow it cut out
C23_HashtagsCutWhole ==
    op = "_normalize" => ret = _normalize(RemoveHashtags(args[1]))

\* ASCII lowercase letters and digits
IsLowerAlnum(c) == c \in 48..57 \/ c \in 97..122

\* C24: the normal form holds only lowercase letters and digits separated
\* by single spaces: no underscore or other punctuation, no uppercase
\* letter, no space at either end and no two spaces in a row
C24_LowerAlnumSingleSpaced ==
    op = "_normalize" =>
        /\ \A i \in 1..Len(ret) : IsLowerAlnum(ret[i]) \/ ret[i] = 32
        /\ ret /= <<>> => ret[1] /= 32 /\ ret[Len(ret)] /= 32
        /\ \A i \in 1..(Len(ret) - 1) : ~(ret[i] = 32 /\ ret[i + 1] = 32)

\* the text with every e-acute replaced by e
Unaccented(text) == [i \in 1..Len(text) |-> IF text[i] = 233 THEN 101 ELSE text[i]]

\* C25: an accented letter normalizes like its base letter wherever it
\* stands: the normal form of a text is the normal form of the text with
\* each e-acute replaced by e
C25_AccentLikeBase ==
    op = "_normalize" => ret = _normalize(Unaccented(args[1]))

(***************************************************************************)
(* Scores as recorded and as classified                                    *)
(***************************************************************************)
\* what _similarity gave for the row at position i, before any rounding
RawScoreAt(i) ==
    Similarity(backend, Normalized(args[1]), Normalized(ReadRows[i].title))

\* score, a number of tenths, is the tenth nearest to the double raw: when
\* the fraction of raw lies halfway between two tenths, the one on the side
\* of its error, and the even one when raw is the half exactly
IsRoundingOf(score, raw) ==
    LET d == 2 * (score * raw.den - ScoreScale * raw.num)
    IN  /\ d <= raw.den
        /\ -d <= raw.den
        /\ d = raw.den => raw.err > 0 \/ (raw.err = 0 /\ score % 2 = 0)
        /\ -d = raw.den => raw.err < 0 \/ (raw.err = 0 /\ score % 2 = 0)

\* C26 as stated: the scores in the result are exactly what the scorer
\* gave for (normalized query, normalized title), untransformed: top_score
\* for the first of the ranking, second_score for the second, the score of
\* each candidate for its row
C26_ScoresAreRaw ==
    (Resolved /\ ~IsNoMatch) =>
        /\ SameFrac(Frac(ret.video_resolution.top_score, ScoreScale),
                    RawScoreAt(PosAtRank(1)))
        /\ Cardinality(ScoredPos) >= 2 =>
               SameFrac(Frac(ret.video_resolution.second_score, ScoreScale),
                        RawScoreAt(PosAtRank(2)))
        /\ IsClarification =>
               \A k \in 1..Len(ret.candidates) :
                   SameFrac(Frac(ret.candidates[k].score, ScoreScale),
                            RawScoreAt(PosAtRank(k)))

\* C26 amended: the scores in the result are what the scorer gave for
\* (normalized query, normalized title) rounded to one decimal, that is
\* the tenth nearest to that double; top_score and second_score are those
\* rounded scores, and the decision is the classifier's for them
C26_ScoresAreRounded ==
    (Resolved /\ ~IsNoMatch) =>
        /\ IsRoundingOf(ret.video_resolution.top_score, RawScoreAt(PosAtRank(1)))
        /\ Cardinality(ScoredPos) >= 2 =>
               IsRoundingOf(ret.video_resolution.second_score,
                            RawScoreAt(PosAtRank(2)))
        /\ IsClarification =>
               \A k \in 1..Len(ret.candidates) :
                   IsRoundingOf(ret.candidates[k].score, RawScoreAt(PosAtRank(k)))
        /\ IsAccepted => IsRoundingOf(ret.score, RawScoreAt(PosAtRank(1)))
        /\ ret.video_resolution.decision =
               _decide(ret.video_resolution.top_score,
                       ret.video_resolution.second_score)

\* a clarification whose first two scores both had to be rounded
C26_Witness ==
    /\ Resolved
    /\ IsClarification
    /\ Len(ret.candidates) >= 2
    /\ \A k \in 1..2 :
           ~SameFrac(Frac(ret.candidates[k].score, ScoreScale),
                     RawScoreAt(PosAtRank(k)))

(***************************************************************************)
(* Metadata, the ambiguity band, the two rankings, the frame               *)
(***************************************************************************)
\* C27: in every result other than None the metadata is consistent with
\* itself: its decision is what _decide gives for the top_score and
\* second_score it carries, and the score of an accepted result is its
\* metadata's top_score
C27_MetadataSelfConsistent ==
    (Resolved /\ ~IsNoMatch) =>
        /\ ret.video_resolution.decision =
               _decide(ret.video_resolution.top_score,
                       ret.video_resolution.second_score)
        /\ IsAccepted => ret.score = ret.video_resolution.top_score

\* an ambiguous result: the second score is what keeps the top from
\* being accepted
C27_Witness ==
    /\ Resolved
    /\ IsClarification
    /\ ret.video_resolution.decision = "ambiguous"
    /\ ret.video_resolution.second_score > 0
    /\ _decide(ret.video_resolution.top_score, 0) = "accepted"

\* C28: no video is selected inside the ambiguity band: an accepted score
\* below 85 is at least 70, and the score of every other scored candidate
\* is at most the accepted score minus 10
C28_NoSelectionInBand ==
    (Resolved /\ IsAccepted /\ ret.score < HIGH_CONFIDENCE_THRESHOLD * ScoreScale) =>
        /\ ret.score >= MATCH_THRESHOLD * ScoreScale
        /\ \A j \in ScoredPos :
               ReadRows[j].youtube_video_id /= ret.video_id =>
                   ScoreAt(j) <= ret.score - AMBIGUITY_GAP * ScoreScale

\* accepted below 85 over three scored candidates
C28_Witness ==
    /\ Resolved
    /\ IsAccepted
    /\ ret.score < HIGH_CONFIDENCE_THRESHOLD * ScoreScale
    /\ Cardinality(ScoredPos) >= 3
    /\ \E j \in ScoredPos :
           /\ ReadRows[j].youtube_video_id /= ret.video_id
           /\ ScoreAt(j) >= (MATCH_THRESHOLD - AMBIGUITY_GAP) * ScoreScale

\* C29: the candidates of a clarification are what get_top_matches gives
\* for the same query with limit 3 on the same catalog: same entries, same
\* order, same scores
C29_CandidatesAreTopMatches ==
    (Resolved /\ IsClarification) =>
        ret.candidates = get_top_matches(backend, ReadRows, args[1], 3)

\* a clarification cut to three candidates, the first two with equal scores
C29_Witness ==
    /\ Resolved
    /\ IsClarification
    /\ Cardinality(ScoredPos) > 3
    /\ ret.candidates[1].score = ret.candidates[2].score
    /\ ret.candidates[1].video_id /= ret.candidates[2].video_id

ReadOps ==
    {"resolve_video_by_title", "get_top_matches", "get_video_count",
     "get_latest_video_from_db"}

\* C30: the resolver only reads the catalog: a resolve_video_by_title call
\* makes exactly one store call, get_recent_videos with limit 100, and no
\* call of the four read operations changes the table
C30_ReadOnly ==
    /\ [](Resolved => store_calls = <<FETCH_LIMIT>>)
    /\ [][op' \in ReadOps => videos' = videos]_vars

\* a resolve that read a catalog of at least two rows after another read
C30_Witness ==
    /\ Resolved
    /\ Len(videos) >= 2
    /\ store_calls = <<FETCH_LIMIT>>
    /\ ~IsNoMatch

====
